---- MODULE Spec2Model ----
(***************************************************************************)
(* Model of main.py: a straight-line driver that loads a pretrained        *)
(* text-to-speech model, issues three synthesis requests and saves each    *)
(* result to its own file.  Every top-level statement of the script is one *)
(* action; pc names the line about to be executed.  The two libraries the  *)
(* script calls (chatterbox.tts and torchaudio) are modelled by the        *)
(* operators from_pretrained, generate and save, whose outcome depends on  *)
(* the environment the run starts in.  An exception raised by a call is    *)
(* never caught by the script, so it ends the run.                         *)
(***************************************************************************)
EXTENDS Integers, Sequences, FiniteSets, TLC

\* Sample rates a loaded model may report are 1..MaxSr (abstract units).
MaxSr == 2

SampleRates == 1..MaxSr

\* Ordinals of the generate calls of the script (lines 7, 11, 15).
Requests == {1, 2, 3}

OutPaths == {"test-1.wav", "test-2.wav", "test-3.wav"}

RefPaths == {"sample.wav", "dad_sample.wav"}

\* The output path the script saves the k-th request to (lines 8, 12, 16).
OutPathOf(k) ==
    IF k = 1 THEN "test-1.wav" ELSE IF k = 2 THEN "test-2.wav" ELSE "test-3.wav"

\* The audio_prompt_path the script passes to the k-th request (lines 7, 11, 15).
PromptOf(k) ==
    IF k = 1 THEN "None" ELSE IF k = 2 THEN "sample.wav" ELSE "dad_sample.wav"

\* A name that no statement has assigned yet.
Unbound == "<unbound>"

NoModel == [id |-> 0, sr |-> 0, device |-> Unbound]

NoWav == [req |-> 0, text |-> Unbound, prompt |-> Unbound, handle |-> 0]

Absent == [exists |-> FALSE, wav |-> NoWav, sr |-> 0]

VARIABLES
    pc,                 \* the line of main.py about to run, or "done" / "aborted"
    model,              \* the module-level name model
    text,               \* the module-level name text
    wav,                \* the module-level name wav
    AUDIO_PROMPT_PATH,  \* the module-level name AUDIO_PROMPT_PATH
    disk,               \* the output files in the working directory
    error,              \* the exception that ended the run, or "none"
    calls,              \* the library calls made so far, in order
    deviceOk,           \* environment: weights and the cuda device are available
    modelSr,            \* environment: the sample rate of the pretrained model
    refFiles,           \* environment: the reference audio files that are readable
    writable,           \* environment: the output paths that can be written
    synthFault          \* environment: the requests whose synthesis itself fails

vars == <<pc, model, text, wav, AUDIO_PROMPT_PATH, disk, error, calls,
          deviceOk, modelSr, refFiles, writable, synthFault>>

envVars == <<deviceOk, modelSr, refFiles, writable, synthFault>>

\* ------------------------------------------------------------ the call log

Call(op, ok, handle, path, w, sr, err) ==
    [op |-> op, ok |-> ok, handle |-> handle, path |-> path, wav |-> w,
     sr |-> sr, err |-> err]

CountOf(op) == Cardinality({i \in 1..Len(calls) : calls[i].op = op})

\* ------------------------------------------------------------ the libraries

\* ChatterboxTTS.from_pretrained(device): a fresh handle, or ModelLoadError.
from_pretrained(device) ==
    IF deviceOk
    THEN [ok |-> TRUE, err |-> "none",
          value |-> [id |-> CountOf("load") + 1, sr |-> modelSr, device |-> device]]
    ELSE [ok |-> FALSE, err |-> "ModelLoadError", value |-> NoModel]

\* model.generate(text, audio_prompt_path): the reference audio is read first,
\* then the text is synthesized; the n-th call returns the n-th waveform.
generate(m, txt, prompt, n) ==
    IF prompt # "None" /\ prompt \notin refFiles
    THEN [ok |-> FALSE, err |-> "AudioPromptError", value |-> NoWav]
    ELSE IF txt = "" \/ n \in synthFault
    THEN [ok |-> FALSE, err |-> "SynthesisError", value |-> NoWav]
    ELSE [ok |-> TRUE, err |-> "none",
          value |-> [req |-> n, text |-> txt, prompt |-> prompt, handle |-> m.id]]

\* torchaudio.save(path, wav, sr): the file at path, or IOError and no file.
save(path, w, sr) ==
    IF path \in writable
    THEN [ok |-> TRUE, err |-> "none",
          value |-> [disk EXCEPT ![path] = [exists |-> TRUE, wav |-> w, sr |-> sr]]]
    ELSE [ok |-> FALSE, err |-> "IOError", value |-> disk]

\* ------------------------------------------------------------ the script

Init ==
    /\ pc = "L4"
    /\ model = NoModel
    /\ text = Unbound
    /\ wav = NoWav
    /\ AUDIO_PROMPT_PATH = Unbound
    /\ disk = [f \in OutPaths |-> Absent]
    /\ error = "none"
    /\ calls = <<>>
    /\ deviceOk \in BOOLEAN
    /\ modelSr \in SampleRates
    /\ refFiles \in SUBSET RefPaths
    /\ writable \in SUBSET OutPaths
    /\ synthFault \in SUBSET Requests

\* An exception no statement catches: the interpreter ends the run.
Propagate(err) ==
    /\ pc' = "aborted"
    /\ error' = err

\* Faulty variant of LoadModel: a failed load falls back to a cpu model and goes on.
LoadModelFallback ==
    /\ pc = "L4"
    /\ LET r == from_pretrained("cuda") IN
         /\ calls' = Append(calls, Call("load", r.ok, r.value.id, "cuda", NoWav, 0, r.err))
         /\ model' = IF r.ok THEN r.value
                     ELSE [id |-> CountOf("load") + 1, sr |-> modelSr, device |-> "cpu"]
         /\ pc' = "L6"
         /\ error' = error
    /\ UNCHANGED <<text, wav, AUDIO_PROMPT_PATH, disk, envVars>>

\* line 4: model = ChatterboxTTS.from_pretrained(device="cuda")
LoadModel ==
    /\ pc = "L4"
    /\ LET r == from_pretrained("cuda") IN
         /\ calls' = Append(calls, Call("load", r.ok, r.value.id, "cuda", NoWav, 0, r.err))
         /\ IF r.ok
            THEN /\ model' = r.value
                 /\ pc' = "L6"
                 /\ error' = error
            ELSE /\ Propagate(r.err)
                 /\ model' = model
    /\ UNCHANGED <<text, wav, AUDIO_PROMPT_PATH, disk, envVars>>

\* line 6: text = "Suhhhhhhhhhhhhh"
AssignText ==
    /\ pc = "L6"
    /\ text' = "Suhhhhhhhhhhhhh"
    /\ pc' = "L7"
    /\ UNCHANGED <<model, wav, AUDIO_PROMPT_PATH, disk, error, calls, envVars>>

\* Faulty variant of GenerateStep: the exception of a failed call is swallowed and the
\* script goes on to the next line with wav as it was.
GenerateStepSwallow(line, next, prompt) ==
    /\ pc = line
    /\ LET r == generate(model, text, prompt, CountOf("generate") + 1) IN
         /\ calls' = Append(calls, Call("generate", r.ok, model.id, prompt, r.value, 0, r.err))
         /\ wav' = IF r.ok THEN r.value ELSE wav
         /\ pc' = next
         /\ error' = error
    /\ UNCHANGED <<model, text, AUDIO_PROMPT_PATH, disk, envVars>>

\* Faulty variant of GenerateStep: a failed call is tried again (a few times at most).
GenerateStepRetry(line, next, prompt) ==
    /\ pc = line
    /\ LET r == generate(model, text, prompt, CountOf("generate") + 1) IN
         /\ calls' = Append(calls, Call("generate", r.ok, model.id, prompt, r.value, 0, r.err))
         /\ IF r.ok
            THEN /\ wav' = r.value
                 /\ pc' = next
                 /\ error' = error
            ELSE /\ wav' = wav
                 /\ IF Len(calls) < 9
                    THEN pc' = line /\ error' = error
                    ELSE Propagate(r.err)
    /\ UNCHANGED <<model, text, AUDIO_PROMPT_PATH, disk, envVars>>

\* wav = model.generate(text, audio_prompt_path=prompt), at line `line`
GenerateStep(line, next, prompt) ==
    /\ pc = line
    /\ LET r == generate(model, text, prompt, CountOf("generate") + 1) IN
         /\ calls' = Append(calls, Call("generate", r.ok, model.id, prompt, r.value, 0, r.err))
         /\ IF r.ok
            THEN /\ wav' = r.value
                 /\ pc' = next
                 /\ error' = error
            ELSE /\ Propagate(r.err)
                 /\ wav' = wav
    /\ UNCHANGED <<model, text, AUDIO_PROMPT_PATH, disk, envVars>>

\* Faulty variant of SaveStep: the file is written at a fixed sample rate instead of
\* the model's.
SaveStepFixedSr(line, next, path) ==
    /\ pc = line
    /\ LET r == save(path, wav, 1) IN
         /\ calls' = Append(calls, Call("save", r.ok, model.id, path, wav, 1, r.err))
         /\ IF r.ok
            THEN /\ disk' = r.value
                 /\ pc' = next
                 /\ error' = error
            ELSE /\ Propagate(r.err)
                 /\ disk' = disk
    /\ UNCHANGED <<model, text, wav, AUDIO_PROMPT_PATH, envVars>>

\* Faulty variant of SaveStep: a failed save is ignored and the script goes on.
SaveStepIgnoreError(line, next, path) ==
    /\ pc = line
    /\ LET r == save(path, wav, model.sr) IN
         /\ calls' = Append(calls, Call("save", r.ok, model.id, path, wav, model.sr, r.err))
         /\ disk' = r.value
         /\ pc' = next
         /\ error' = error
    /\ UNCHANGED <<model, text, wav, AUDIO_PROMPT_PATH, envVars>>

\* ta.save(path, wav, model.sr), at line `line`
SaveStep(line, next, path) ==
    /\ pc = line
    /\ LET r == save(path, wav, model.sr) IN
         /\ calls' = Append(calls, Call("save", r.ok, model.id, path, wav, model.sr, r.err))
         /\ IF r.ok
            THEN /\ disk' = r.value
                 /\ pc' = next
                 /\ error' = error
            ELSE /\ Propagate(r.err)
                 /\ disk' = disk
    /\ UNCHANGED <<model, text, wav, AUDIO_PROMPT_PATH, envVars>>

\* AUDIO_PROMPT_PATH = path, at line `line`
AssignPrompt(line, next, path) ==
    /\ pc = line
    /\ AUDIO_PROMPT_PATH' = path
    /\ pc' = next
    /\ UNCHANGED <<model, text, wav, disk, error, calls, envVars>>

\* line 7: wav = model.generate(text)
Generate1 == GenerateStep("L7", "L8", "None")

\* Faulty variant of Save1: the first result is not written before the script goes on.
Save1Deferred ==
    /\ pc = "L8"
    /\ pc' = "L10"
    /\ UNCHANGED <<model, text, wav, AUDIO_PROMPT_PATH, disk, error, calls, envVars>>

\* line 8: ta.save("test-1.wav", wav, model.sr)
Save1 == SaveStep("L8", "L10", "test-1.wav")

\* Faulty variant of SetPrompt2: the model is loaded again before the second request.
SetPrompt2Reload ==
    /\ pc = "L10"
    /\ AUDIO_PROMPT_PATH' = "sample.wav"
    /\ model' = [id |-> model.id + 1, sr |-> model.sr, device |-> model.device]
    /\ pc' = "L11"
    /\ UNCHANGED <<text, wav, disk, error, calls, envVars>>

\* line 10: AUDIO_PROMPT_PATH="sample.wav"
SetPrompt2 == AssignPrompt("L10", "L11", "sample.wav")

\* Faulty variant of Generate2: the result of the second request is not assigned to wav.
Generate2Discard ==
    /\ pc = "L11"
    /\ LET r == generate(model, text, AUDIO_PROMPT_PATH, CountOf("generate") + 1) IN
         /\ calls' = Append(calls, Call("generate", r.ok, model.id, AUDIO_PROMPT_PATH,
                                        r.value, 0, r.err))
         /\ IF r.ok
            THEN /\ pc' = "L12"
                 /\ error' = error
            ELSE Propagate(r.err)
    /\ UNCHANGED <<model, text, wav, AUDIO_PROMPT_PATH, disk, envVars>>

\* line 11: wav = model.generate(text, audio_prompt_path=AUDIO_PROMPT_PATH)
Generate2 == GenerateStep("L11", "L12", AUDIO_PROMPT_PATH)

\* Faulty variant of Save2: the second result is saved to the path of the first.
Save2WrongPath == SaveStep("L12", "L14", "test-1.wav")

\* line 12: ta.save("test-2.wav", wav, model.sr)
Save2 == SaveStep("L12", "L14", "test-2.wav")

\* Faulty variant of SetPrompt3: the third request keeps the reference of the second.
SetPrompt3Stale == AssignPrompt("L14", "L15", "sample.wav")

\* line 14: AUDIO_PROMPT_PATH="dad_sample.wav"
SetPrompt3 == AssignPrompt("L14", "L15", "dad_sample.wav")

\* line 15: wav = model.generate(text, audio_prompt_path=AUDIO_PROMPT_PATH)
Generate3 == GenerateStep("L15", "L16", AUDIO_PROMPT_PATH)

\* line 16: ta.save("test-3.wav", wav, model.sr)
Save3 == SaveStep("L16", "done", "test-3.wav")

Next ==
    \/ LoadModel
    \/ AssignText
    \/ Generate1
    \/ Save1
    \/ SetPrompt2
    \/ Generate2
    \/ Save2
    \/ SetPrompt3
    \/ Generate3
    \/ Save3

Spec == Init /\ [][Next]_vars

\* Every statement of the script is a blocking call or an assignment that the
\* interpreter runs to its end: an enabled statement is eventually executed.
FairSpec == Spec /\ WF_vars(Next)

\* ------------------------------------------------------------ reading the log

Idx == 1..Len(calls)

IsGen(i) == calls[i].op = "generate"

IsSave(i) == calls[i].op = "save"

\* The ordinal of the generate call at position i of the log.
ReqNo(i) == Cardinality({j \in 1..i : IsGen(j)})

\* The result of the generate call at position i was saved to its file at
\* some position strictly between i and j.
SavedBetween(i, j) ==
    \E k \in Idx :
        /\ i < k /\ k < j
        /\ IsSave(k) /\ calls[k].ok
        /\ calls[k].wav = calls[i].wav
        /\ calls[k].path = OutPathOf(ReqNo(i))

\* The successful requests whose result is in no output file.
Unwritten ==
    {i \in Idx : IsGen(i) /\ calls[i].ok /\ ~SavedBetween(i, Len(calls) + 1)}

\* The order in which the script makes its library calls.
ProgramOrder == <<"load", "generate", "save", "generate", "save", "generate", "save">>

Terminated == pc \in {"done", "aborted"}

FileOf(w, sr) == [exists |-> TRUE, wav |-> w, sr |-> sr]

\* ------------------------------------------------------------ claims

\* C1: whenever a synthesis request is issued, the result of every earlier
\* request has already been saved to that request's output file and is on
\* disk; at most one result is unwritten at any time, and only while the
\* script is about to save it or after the run has been aborted.
C1_ResultWrittenBeforeNextRequest ==
    /\ \A i \in Idx : \A j \in Idx :
          (i < j /\ IsGen(i) /\ IsGen(j)) =>
              /\ calls[i].ok
              /\ SavedBetween(i, j)
              /\ disk[OutPathOf(ReqNo(i))] = FileOf(calls[i].wav, model.sr)
    /\ Cardinality(Unwritten) <= 1
    /\ Unwritten # {} => pc \in {"L8", "L12", "L16", "aborted"}

C1_Witness ==
    /\ CountOf("generate") = 3
    /\ Unwritten # {}
    /\ disk["test-1.wav"].exists
    /\ disk["test-2.wav"].exists

\* C2: a failed step is the last step of the run: the run is aborted with
\* that step's error and nothing is called after it; the calls made are
\* always a prefix of the program's order, so no step is skipped.
C2_FailureIsTerminal ==
    /\ \A i \in Idx :
          ~calls[i].ok => /\ i = Len(calls)
                          /\ pc = "aborted"
                          /\ error = calls[i].err
    /\ pc = "aborted" => calls # <<>> /\ ~calls[Len(calls)].ok
    /\ Len(calls) <= Len(ProgramOrder)
    /\ \A i \in Idx : calls[i].op = ProgramOrder[i]

C2_Witness ==
    /\ pc = "aborted"
    /\ Len(calls) = 5
    /\ error = "IOError"

\* C3: when loading the model fails, no output file exists and no synthesis
\* request has been issued.
C3_LoadFailureCreatesNothing ==
    (\E i \in Idx : calls[i].op = "load" /\ ~calls[i].ok) =>
        /\ \A f \in OutPaths : disk[f] = Absent
        /\ CountOf("generate") = 0
        /\ CountOf("save") = 0
        /\ pc = "aborted"
        /\ error = "ModelLoadError"

C3_Witness ==
    /\ pc = "aborted"
    /\ error = "ModelLoadError"
    /\ writable = OutPaths
    /\ refFiles = RefPaths

C5_MissingPromptFails ==
    /\ \A i \in Idx :
          (IsGen(i) /\ calls[i].path \in RefPaths /\ calls[i].path \notin refFiles) =>
              /\ ~calls[i].ok
              /\ calls[i].err = "AudioPromptError"
              /\ error = "AudioPromptError"
              /\ pc = "aborted"
              /\ disk[OutPathOf(ReqNo(i))] = Absent
    /\ \A i \in Idx : IsGen(i) => calls[i].path = PromptOf(ReqNo(i))

C5_Witness ==
    /\ "dad_sample.wav" \notin refFiles
    /\ CountOf("generate") = 3
    /\ error = "AudioPromptError"
    /\ 3 \in synthFault

\* C6: a run in which nothing fails ends with exactly the three output files,
\* all of the same text: test-1.wav of the request without reference audio,
\* test-2.wav of the one with sample.wav, test-3.wav of the one with
\* dad_sample.wav, saved in that order.
C6_CompletedRunWritesThreeFiles ==
    pc = "done" =>
        /\ disk["test-1.wav"] =
              FileOf([req |-> 1, text |-> "Suhhhhhhhhhhhhh", prompt |-> "None",
                      handle |-> model.id], model.sr)
        /\ disk["test-2.wav"] =
              FileOf([req |-> 2, text |-> "Suhhhhhhhhhhhhh", prompt |-> "sample.wav",
                      handle |-> model.id], model.sr)
        /\ disk["test-3.wav"] =
              FileOf([req |-> 3, text |-> "Suhhhhhhhhhhhhh", prompt |-> "dad_sample.wav",
                      handle |-> model.id], model.sr)
        /\ DOMAIN disk = {"test-1.wav", "test-2.wav", "test-3.wav"}
        /\ LET saves == SelectSeq(calls, LAMBDA c : c.op = "save") IN
              /\ Len(saves) = 3
              /\ saves[1].path = "test-1.wav"
              /\ saves[2].path = "test-2.wav"
              /\ saves[3].path = "test-3.wav"
        /\ error = "none"

C6_Witness ==
    /\ pc = "done"
    /\ \A f \in OutPaths : disk[f].exists

\* C7: the model handle is created by one load, the first call of the run;
\* every later call uses that handle, and once bound the name model is never
\* assigned again.
C7_HandleLoadedOnce ==
    /\ [](/\ CountOf("load") <= 1
          /\ model # NoModel => /\ calls # <<>>
                                /\ calls[1].op = "load" /\ calls[1].ok
                                /\ model.id = calls[1].handle
          /\ \A i \in Idx :
                calls[i].op # "load" =>
                    /\ calls[1].op = "load" /\ calls[1].ok
                    /\ calls[i].handle = calls[1].handle
                    /\ calls[i].handle = model.id)
    /\ [][model # NoModel => model' = model]_vars

C7_Witness ==
    /\ pc = "done"
    /\ model # NoModel
    /\ Len(calls) = 7

\* C8: every output file on disk, and every save the run made, carries the
\* sample rate of the loaded model handle.
C8_FilesHaveModelSampleRate ==
    /\ \A f \in OutPaths : disk[f].exists => disk[f].sr = model.sr /\ model.sr = modelSr
    /\ \A i \in Idx : IsSave(i) => calls[i].sr = model.sr

C8_Witness ==
    /\ \A f \in OutPaths : disk[f].exists
    /\ modelSr = MaxSr
    /\ model.sr = MaxSr

\* C9: every run ends, either completed with the three files written or
\* aborted at its first failing step; load is called at most once, generate
\* and save at most three times each.
C9_RunTerminates ==
    /\ <>Terminated
    /\ [](/\ CountOf("load") <= 1
          /\ CountOf("generate") <= 3
          /\ CountOf("save") <= 3)
    /\ [](pc = "done" => /\ \A f \in OutPaths : disk[f].exists
                         /\ \A i \in Idx : calls[i].ok
                         /\ error = "none")
    /\ [](pc = "aborted" => /\ calls # <<>>
                            /\ ~calls[Len(calls)].ok
                            /\ \A i \in 1..(Len(calls) - 1) : calls[i].ok
                            /\ error = calls[Len(calls)].err)
    /\ [][Terminated => pc' = pc]_vars

C9_Witness ==
    /\ pc = "aborted"
    /\ CountOf("generate") = 3
    /\ CountOf("save") = 3

\* C10: the waveform in output file k, and the waveform handed to the k-th
\* save, is the result of the k-th synthesis request, also in runs in which a
\* request fails.
C10_FileHoldsOwnRequest ==
    /\ \A k \in Requests :
          disk[OutPathOf(k)].exists =>
              /\ disk[OutPathOf(k)].wav.req = k
              /\ \E i \in Idx : /\ IsGen(i) /\ calls[i].ok /\ ReqNo(i) = k
                                /\ disk[OutPathOf(k)].wav = calls[i].wav
    /\ \A i \in Idx :
          IsSave(i) => /\ calls[i].path = OutPathOf(calls[i].wav.req)
                       /\ calls[i].wav.prompt = PromptOf(calls[i].wav.req)

C10_Witness ==
    /\ pc = "aborted"
    /\ error \in {"SynthesisError", "AudioPromptError"}
    /\ CountOf("generate") = 2
    /\ disk["test-1.wav"].exists
====
